---------------------------- MODULE Spec2Model ----------------------------
(***************************************************************************)
(* A model of the web crawler of src/WebCrawler.py: URL normalization,     *)
(* the cache filename derivation, the domain rate limiter, the worker      *)
(* routine process_url and the batch scheduler crawl().                    *)
(*                                                                         *)
(* URLs are TLA+ strings.  urlparse / urlunparse are modelled character by *)
(* character after urllib.parse (urlsplit, _splitnetloc, _splitparams,     *)
(* urlunsplit), for URLs over lower-case letters, digits and the           *)
(* delimiters : / ? # ; . = _ -                                            *)
(***************************************************************************)
EXTENDS Integers, Sequences, FiniteSets, TLC

(***************************************************************************)
(* String helpers.                                                         *)
(***************************************************************************)
Ch(s, i) == IF i >= 1 /\ i <= Len(s) THEN SubSeq(s, i, i) ELSE ""

\* s[from:] in Python, with a 1-based first index
StrFrom(s, from) == IF from > Len(s) THEN "" ELSE SubSeq(s, from, Len(s))

\* s[:upto] in Python: the first upto characters
StrTo(s, upto) == IF upto <= 0 THEN "" ELSE SubSeq(s, 1, upto)

\* str.find(c, from): the least index >= from holding character c, 0 if none
RECURSIVE Find(_, _, _)
Find(s, c, from) ==
    IF from > Len(s) THEN 0
    ELSE IF Ch(s, from) = c THEN from
    ELSE Find(s, c, from + 1)

\* str.rfind(c): the greatest index holding c, 0 if none
RECURSIVE RFind(_, _, _)
RFind(s, c, upto) ==
    IF upto < 1 THEN 0
    ELSE IF Ch(s, upto) = c THEN upto
    ELSE RFind(s, c, upto - 1)

StartsWith(s, p) == Len(s) >= Len(p) /\ StrTo(s, Len(p)) = p

Letters == {"a", "b", "c", "d", "e", "f", "g", "h", "i", "j", "k", "l", "m",
            "n", "o", "p", "q", "r", "s", "t", "u", "v", "w", "x", "y", "z"}

Digits == {"0", "1", "2", "3", "4", "5", "6", "7", "8", "9"}

\* urllib.parse.scheme_chars
SchemeChars == Letters \cup Digits \cup {"+", "-", "."}

\* urllib.parse.uses_params / uses_netloc, restricted to the schemes in use
UsesParams == {"", "http", "https", "ftp"}

UsesNetloc == {"", "http", "https", "ftp"}

(***************************************************************************)
(* urllib.parse.urlparse, as called by the crawler.  Each stage hands its  *)
(* result to the next as a parameter.                                      *)
(***************************************************************************)
\* s split around index i: <<s[:i], s[i+1:]>>, or <<s, "">> when i = 0
CutAt(s, i) == IF i > 0 THEN <<StrTo(s, i - 1), StrFrom(s, i + 1)>> ELSE <<s, "">>

\* s.split(c, 1), padded to two parts
Cut(s, c) == CutAt(s, Find(s, c, 1))

\* urlsplit: url[:i] is a scheme when it starts with a letter and holds only
\* scheme characters
IsScheme(url, i) ==
    /\ i > 1
    /\ Ch(url, 1) \in Letters
    /\ \A k \in 1..(i - 1) : Ch(url, k) \in SchemeChars

\* <<scheme, rest>>
SplitSchemeAt(url, i) == IF IsScheme(url, i) THEN CutAt(url, i) ELSE <<"", url>>

\* _splitnetloc: the authority ends at the first of / ? # from index 3 on
NetlocEnd(url) ==
    IF \E i \in 3..Len(url) : Ch(url, i) \in {"/", "?", "#"}
    THEN CHOOSE i \in 3..Len(url) :
             /\ Ch(url, i) \in {"/", "?", "#"}
             /\ \A j \in 3..(i - 1) : Ch(url, j) \notin {"/", "?", "#"}
    ELSE Len(url) + 1

SplitNetlocAt(url, e) == <<StrFrom(StrTo(url, e - 1), 3), StrFrom(url, e)>>

\* <<netloc, rest>>
SplitNetloc(url) ==
    IF StartsWith(url, "//") THEN SplitNetlocAt(url, NetlocEnd(url)) ELSE <<"", url>>

SplitResult(scheme, netloc, pq, fragment) ==
    [scheme |-> scheme, netloc |-> netloc, path |-> pq[1], query |-> pq[2],
     fragment |-> fragment]

SplitQuery(scheme, netloc, uf) == SplitResult(scheme, netloc, Cut(uf[1], "?"), uf[2])

SplitFragment(scheme, nr) == SplitQuery(scheme, nr[1], Cut(nr[2], "#"))

SplitAuthority(sr) == SplitFragment(sr[1], SplitNetloc(sr[2]))

urlsplit(url) == SplitAuthority(SplitSchemeAt(url, Find(url, ":", 1)))

\* the index of the ";" that starts the params of the last path segment
ParamsAt(url, slash) ==
    IF slash > 0 THEN Find(url, ";", slash) ELSE Find(url, ";", 1)

\* urllib.parse._splitparams: <<path, params>>
splitparams(url) == CutAt(url, ParamsAt(url, RFind(url, "/", Len(url))))

ParseResult(s, pp) ==
    [scheme |-> s.scheme, netloc |-> s.netloc, path |-> pp[1], params |-> pp[2],
     query |-> s.query, fragment |-> s.fragment]

WithParams(s) ==
    IF s.scheme \in UsesParams /\ Find(s.path, ";", 1) > 0
    THEN ParseResult(s, splitparams(s.path))
    ELSE ParseResult(s, <<s.path, "">>)

urlparse(url) == WithParams(urlsplit(url))

(***************************************************************************)
(* urllib.parse.urlunparse (urlunsplit after re-attaching the params).     *)
(***************************************************************************)
AddParams(path, params) == IF params # "" THEN path \o ";" \o params ELSE path

AddNetloc(scheme, netloc, url) ==
    IF netloc # "" \/ (scheme # "" /\ scheme \in UsesNetloc /\ ~StartsWith(url, "//"))
    THEN "//" \o netloc \o (IF url # "" /\ Ch(url, 1) # "/" THEN "/" ELSE "") \o url
    ELSE url

AddScheme(scheme, url) == IF scheme # "" THEN scheme \o ":" \o url ELSE url

AddQuery(url, query) == IF query # "" THEN url \o "?" \o query ELSE url

AddFragment(url, fragment) == IF fragment # "" THEN url \o "#" \o fragment ELSE url

urlunparse(scheme, netloc, path, params, query, fragment) ==
    AddFragment(
        AddQuery(AddScheme(scheme, AddNetloc(scheme, netloc, AddParams(path, params))),
                 query),
        fragment)

(***************************************************************************)
(* WebCrawler.normalize_url: the fragment is dropped and, when the parsed  *)
(* path is empty, "/" is appended to the reassembled string.               *)
(***************************************************************************)
\* lines 64-66
ensure_slash(path, normalized) == IF path = "" THEN normalized \o "/" ELSE normalized

\* lines 53-66, given the parsed URL
normalize_parsed(parsed) ==
    ensure_slash(parsed.path,
                 urlunparse(parsed.scheme, parsed.netloc, parsed.path,
                            parsed.params, parsed.query, ""))

normalize_url(url) == normalize_parsed(urlparse(url))

(***************************************************************************)
(* urllib.parse.urljoin, as called at extract_links_from_content, for the  *)
(* hrefs a page of the modelled site holds: hrefs with an authority        *)
(* (absolute or scheme-relative), hrefs of another scheme, and rooted      *)
(* paths ("/b") without empty or dot segments.                             *)
(***************************************************************************)
JoinParsed(url, b, p, scheme) ==
    IF scheme # b.scheme \/ scheme \notin UsesNetloc THEN url
    ELSE IF p.netloc # ""
    THEN urlunparse(scheme, p.netloc, p.path, p.params, p.query, p.fragment)
    ELSE IF p.path = "" /\ p.params = ""
    THEN urlunparse(scheme, b.netloc, b.path, b.params,
                    IF p.query = "" THEN b.query ELSE p.query, p.fragment)
    ELSE urlunparse(scheme, b.netloc, p.path, p.params, p.query, p.fragment)

\* urlparse(url, bscheme): the base's scheme is the default
JoinWithBase(url, b, p) ==
    JoinParsed(url, b, p, IF p.scheme = "" THEN b.scheme ELSE p.scheme)

urljoin(base, url) ==
    IF base = "" THEN url
    ELSE IF url = "" THEN base
    ELSE JoinWithBase(url, urlparse(base), urlparse(url))

(***************************************************************************)
(* A page's markup is a sequence of tokens: a token starting with "<" is   *)
(* markup other than an anchor, any other token is the href of an anchor   *)
(* tag, in document order.  The empty sequence is the empty document.      *)
(***************************************************************************)
IsAnchor(tok) == ~StartsWith(tok, "<")

\* lines 245-247
skip_href(href) ==
    href = "" \/ StartsWith(href, "javascript:") \/ StartsWith(href, "#")

\* lines 257-259
has_scheme_and_netloc(parsed) == parsed.scheme # "" /\ parsed.netloc # ""

valid_url(url) == has_scheme_and_netloc(urlparse(url))

\* lines 251-261: the link an href contributes, <<>> when it is dropped
link_if_valid(absolute_url) ==
    IF valid_url(absolute_url) THEN <<absolute_url>> ELSE <<>>

link_of(url, href) ==
    IF ~IsAnchor(href) \/ skip_href(href) THEN <<>>
    ELSE link_if_valid(normalize_url(urljoin(url, href)))

\* WebCrawler.extract_links_from_content
RECURSIVE extract_links_from_content(_, _)
extract_links_from_content(url, content) ==
    IF content = <<>> THEN <<>>
    ELSE link_of(url, Head(content)) \o extract_links_from_content(url, Tail(content))

(***************************************************************************)
(* WebCrawler.get_filename_for_url.                                        *)
(***************************************************************************)
\* str.replace(old, ""): every occurrence of old removed, left to right
RECURSIVE RemoveAll(_, _)
RemoveAll(s, old) ==
    IF s = "" THEN ""
    ELSE IF StartsWith(s, old) THEN RemoveAll(StrFrom(s, Len(old) + 1), old)
    ELSE Ch(s, 1) \o RemoveAll(StrFrom(s, 2), old)

\* str.rstrip("/")
RECURSIVE RStripSlash(_)
RStripSlash(s) ==
    IF s # "" /\ Ch(s, Len(s)) = "/" THEN RStripSlash(StrTo(s, Len(s) - 1)) ELSE s

\* str.replace("/", "_")
RECURSIVE SlashToUnderscore(_)
SlashToUnderscore(s) ==
    IF s = "" THEN ""
    ELSE (IF Ch(s, 1) = "/" THEN "_" ELSE Ch(s, 1)) \o SlashToUnderscore(StrFrom(s, 2))

\* "".join(c if c.isalnum() or c in "_-." else "_" for c in filename)
RECURSIVE Sanitize(_)
Sanitize(s) ==
    IF s = "" THEN ""
    ELSE (IF Ch(s, 1) \in Letters \cup Digits \cup {"_", "-", "."} THEN Ch(s, 1) ELSE "_")
         \o Sanitize(StrFrom(s, 2))

\* the length above which the filename is replaced by domain + path hash
MaxFilenameLen == 100

\* hashlib.md5(path).hexdigest()[:8]: an uninterpreted digest of the path
\* (reached only by names longer than MaxFilenameLen)
path_hash(path) == "md5-" \o path

\* line 295: the authority without "www."
strip_www(netloc) == RemoveAll(netloc, "www.")

\* lines 304-305
limit_length(domain, path, filename) ==
    IF Len(filename) > MaxFilenameLen THEN domain \o "_" \o path_hash(path)
    ELSE filename

\* lines 301-307
name_of(domain, path) ==
    IF path # "" /\ path # "/"
    THEN limit_length(domain, path, domain \o SlashToUnderscore(RStripSlash(path)))
    ELSE domain \o "_index"

\* lines 292-311, given the parsed URL
filename_of_parsed(parsed_url) ==
    Sanitize(name_of(strip_www(parsed_url.netloc), parsed_url.path)) \o ".html"

derive_filename(url) == filename_of_parsed(urlparse(url))

(***************************************************************************)
(* Bounds and inputs of the model.                                         *)
(***************************************************************************)
\* max_workers: the size of the thread pool and of a batch
MaxWorkers == 2

\* max_depth: the deepest depth that is processed
MaxDepth == 2

\* rate_limit, in clock ticks
RateLimit == 2

\* the most the clock advances between two readings of time.time()
MaxTick == 1

Workers == 1..MaxWorkers

max_workers == MaxWorkers

rate_limit == RateLimit

\* the seed URL of the end-to-end scenario
ScenarioSeed == "http://x.test/"

\* the seed URLs a crawler is constructed with
SeedUrls == {"https://x.test", "http://x.test/a?q=1"}

(***************************************************************************)
(* The crawled site: the markup the fetch capability returns for a URL.    *)
(* A URL the site does not serve fails (HTTP error); a URL it serves may   *)
(* also fail (transport error).                                            *)
(***************************************************************************)
Site ==
    [u \in {"https://x.test/", "https://x.test?q///", "https://y.test/",
            "https://x.test/a", "https://x.test/b"} |->
        CASE u = "https://x.test/" ->
                 <<"<html>", "https://x.test?q", "//y.test/", "https://x.test?q#s",
                   "/a", "#top">>
          [] u = "https://x.test?q///" -> <<"<p>", "/a">>
          [] u = "https://y.test/" -> <<>>
          [] u = "https://x.test/a" -> <<"https://x.test/", "/b">>
          [] u = "https://x.test/b" -> <<"/a", "javascript:go">>]

\* the site of the end-to-end scenario: / -> [/a, /b], /a -> [/b], /b -> [],
\* served alike over http and https
ScenarioPaths == {"/", "/a", "/b"}

ScenarioSite ==
    [u \in {sch \o "://x.test" \o p : sch \in {"http", "https"}, p \in ScenarioPaths} |->
        CASE StrFrom(u, Len(u)) = "/" -> <<"/a", "/b">>
          [] StrFrom(u, Len(u)) = "a" -> <<"/b">>
          [] OTHER -> <<>>]

\* a crawler that goes deeper than the others: its seed, depth and site, a
\* graph of / -> [/a, /b, /c], /a -> [/d], /b -> [/e], /c -> [/f, /g],
\* /d -> [/g], /g -> [/h]
DeepSeed == "https://d.test"

DeepDepth == MaxDepth + 2

DeepSite ==
    [u \in {"https://d.test/"} \cup
            {"https://d.test/" \o p : p \in {"a", "b", "c", "d", "e", "f", "g", "h"}} |->
        CASE u = "https://d.test/" -> <<"/a", "/b", "/c">>
          [] u = "https://d.test/a" -> <<"/d">>
          [] u = "https://d.test/b" -> <<"/e">>
          [] u = "https://d.test/c" -> <<"/f", "/g">>
          [] u = "https://d.test/d" -> <<"/g">>
          [] u = "https://d.test/g" -> <<"/h">>
          [] OTHER -> <<>>]

\* the sites a crawler is run against
Sites == {Site, ScenarioSite, DeepSite}

\* the cache directory as a crawl finds it: no file but the one an earlier
\* run left for https://x.test/a, complete or empty (a write that failed)
InitialCaches ==
    { [f \in {"x.test_a.html"} |-> Site["https://x.test/a"]],
      [f \in {"x.test_a.html"} |-> <<>>] }

\* every seed a crawler is constructed with
AllSeeds == SeedUrls \cup {ScenarioSeed, DeepSeed}

\* the URLs normalize_url and get_filename_for_url are called on directly
UrlInputs ==
    {"https://x.test", "https://x.test/", "https://x.test/a", "https://x.test/a/",
     "https://x.test/a#s", "https://x.test/a?q=1", "https://x.test/a?q=2",
     "https://x.test?q=1", "https://x.test/a;p", "https://x.test;p",
     "http://x.test/a", "https://www.x.test/a", "https://x.test/a/b",
     "https://x.test/a_b", "x.test/a"}

\* lines 74-81: the seed is rebuilt from base_domain
crawl_seed(domain) ==
    normalize_url(IF urlparse(domain).scheme = "" THEN "https://" \o domain
                  ELSE domain)

\* the links of the page site s serves at u
page_links(s, u) ==
    IF u \in DOMAIN s
    THEN {extract_links_from_content(u, s[u])[i] :
              i \in DOMAIN extract_links_from_content(u, s[u])}
    ELSE {}

\* the links of the pages the sites serve at u
site_links(u) == UNION {page_links(s, u) : s \in Sites}

\* the URLs reached from S by k rounds of normalizing and following links
RECURSIVE Reach(_, _)
Reach(S, k) ==
    IF k = 0 THEN S
    ELSE Reach(S \cup {normalize_url(u) : u \in S} \cup UNION {site_links(u) : u \in S},
               k - 1)

\* every URL a crawl of Site to max_depth, or a direct call, can handle: a
\* task is normalized, fetched and its links normalized once per depth
Urls ==
    Reach(AllSeeds \cup UrlInputs \cup {crawl_seed(urlparse(s).netloc) : s \in AllSeeds},
          3 * (DeepDepth + 1))

\* the markup a fetch or a cache file can hold
Contents == UNION {{s[u] : u \in DOMAIN s} : s \in Sites}

(***************************************************************************)
(* The URL functions tabulated over Urls: the crawler's steps look a       *)
(* result up, the operators above compute it.                              *)
(***************************************************************************)
UrlParse == [u \in Urls \cup {urlparse(s).netloc : s \in AllSeeds} |-> urlparse(u)]

NormalizeUrl == [u \in Urls |-> normalize_url(u)]

DeriveFilename == [u \in Urls |-> derive_filename(u)]

ExtractLinks == [u \in Urls, c \in Contents |-> extract_links_from_content(u, c)]

CrawlSeed == [d \in {urlparse(s).netloc : s \in AllSeeds} |-> crawl_seed(d)]

\* lines 288-317, given the normalized URL: the memoized or derived filename
lookup_filename(m, key) == IF key \in DOMAIN m THEN m[key] ELSE DeriveFilename[key]

\* the filename returned for url, given the memo map m (url_to_filename_map)
get_filename_for_url(m, url) == lookup_filename(m, NormalizeUrl[url])

\* the memo map after the call of lines 288-315, given the normalized URL
memoize_key(m, key) ==
    IF key \in DOMAIN m THEN m
    ELSE [k \in DOMAIN m \cup {key} |-> IF k = key THEN DeriveFilename[k] ELSE m[k]]

memoize_filename(m, url) == memoize_key(m, NormalizeUrl[url])

VARIABLES
    seed_url,             \* seed_url: the constructor's argument, then the
                          \* local of crawl() (lines 74-81)
    base_domain,          \* self.base_domain
    restrict_to_domain,   \* self.restrict_to_domain
    save_path,            \* self.save_path: "" (None) or the cache directory
    max_depth,            \* self.max_depth
    site,                 \* the pages requests.get can reach: URL -> markup
    visited_urls,         \* self.visited_urls
    link_structure,       \* self.link_structure
    url_to_filename_map,  \* self.url_to_filename_map
    domain_timestamps,    \* self.domain_timestamps
    domain_lock,          \* holder of self.domain_lock, 0 when free
    file_lock,            \* holder of self.file_lock, 0 when free
    files,                \* the files under save_path: filename -> content
    now,                  \* the clock read by time.time()
    crawl_pc,             \* position of crawl(): "init", "loop", "wait", "returned"
    queue,                \* crawl()'s work queue of <<url, depth>>
    processing,           \* crawl()'s set of URLs being processed
    new_urls,             \* crawl()'s new_urls of the current batch
    thread,               \* the pool's threads: position and locals of process_url
    fetch_count,          \* history: calls of fetch_links_and_content per URL
    dispatched,           \* history: tasks submitted to the pool
    discarded,            \* history: tasks dropped for their depth
    call_pc,              \* direct calls of the URL functions: the stage reached
    args,                 \* direct calls: the URLs passed
    results               \* direct calls: the values returned

vars == <<seed_url, base_domain, restrict_to_domain, save_path, max_depth, site,
          visited_urls,
          link_structure, url_to_filename_map, domain_timestamps, domain_lock,
          file_lock, files, now, crawl_pc, queue, processing, new_urls, thread,
          fetch_count, dispatched, discarded, call_pc, args, results>>

config == <<base_domain, restrict_to_domain, save_path, max_depth, site>>

calls == <<call_pc, args, results>>

IdleThread ==
    [pc |-> "idle", task |-> <<"", 0>>, url |-> "", links |-> <<>>,
     content |-> <<>>, cached |-> FALSE, out |-> <<>>, i |-> 0, wake |-> 0]

\* WebCrawler.__init__
Init ==
    /\ seed_url \in SeedUrls
    /\ base_domain = UrlParse[seed_url].netloc
    /\ restrict_to_domain \in BOOLEAN
    /\ save_path \in {"", "cache"}
    /\ max_depth = MaxDepth
    /\ site = Site
    /\ visited_urls = {}
    /\ link_structure = <<>>
    /\ url_to_filename_map = <<>>
    /\ domain_timestamps = <<>>
    /\ domain_lock = 0
    /\ file_lock = 0
    /\ files \in (IF save_path = "" THEN {<<>>} ELSE InitialCaches)
    /\ now = 0
    /\ crawl_pc = "init"
    /\ queue = <<>>
    /\ processing = {}
    /\ new_urls = <<>>
    /\ thread = [w \in Workers |-> IdleThread]
    /\ fetch_count = <<>>
    /\ dispatched = {}
    /\ discarded = {}
    /\ call_pc = "none"
    /\ args = <<>>
    /\ results = <<>>

\* f with f[k] set to v, k added to the domain if new
Put(f, k, v) == [x \in DOMAIN f \cup {k} |-> IF x = k THEN v ELSE f[x]]

(***************************************************************************)
(* crawl(): the scheduler.                                                 *)
(***************************************************************************)
CrawlStart ==
    /\ crawl_pc = "init"
    /\ seed_url' = CrawlSeed[base_domain]
    /\ queue' = << <<CrawlSeed[base_domain], 1>> >>
    /\ processing' = {}
    /\ crawl_pc' = "loop"
    /\ UNCHANGED <<config, calls, visited_urls, link_structure, url_to_filename_map,
                   domain_timestamps, domain_lock, file_lock, files, now,
                   new_urls, thread, fetch_count, dispatched, discarded>>

\* mutation: the depth test is off by one
too_deep_off_by_one(depth) == depth > max_depth + 1

\* whether a popped task of this depth is dropped (line 106)
too_deep(depth) == depth > max_depth

\* mutation: a task that is too deep ends the loop ("break" for "continue")
RECURSIVE select_batch_break(_, _, _, _)
select_batch_break(q, batch, proc, dropped) ==
    IF q = <<>> \/ Len(batch) >= max_workers \/ Head(q)[2] > max_depth
    THEN [queue |-> q, batch |-> batch, processing |-> proc, dropped |-> dropped]
    ELSE IF Head(q)[1] \in visited_urls \/ Head(q)[1] \in proc
    THEN select_batch_break(Tail(q), batch, proc, dropped)
    ELSE select_batch_break(Tail(q), Append(batch, Head(q)),
                            proc \cup {Head(q)[1]}, dropped)

\* mutation: a batch takes one task more than there are workers
RECURSIVE select_batch_oversize(_, _, _, _)
select_batch_oversize(q, batch, proc, dropped) ==
    IF q = <<>> \/ Len(batch) >= max_workers + 1
    THEN [queue |-> q, batch |-> batch, processing |-> proc, dropped |-> dropped]
    ELSE IF Head(q)[1] \in visited_urls \/ Head(q)[1] \in proc
    THEN select_batch_oversize(Tail(q), batch, proc, dropped)
    ELSE IF too_deep(Head(q)[2])
    THEN select_batch_oversize(Tail(q), batch, proc, dropped \cup {Head(q)})
    ELSE select_batch_oversize(Tail(q), Append(batch, Head(q)),
                               proc \cup {Head(q)[1]}, dropped)

\* lines 98-111: the inner loop that fills a batch.  The result holds what is
\* left of the queue, the batch, the processing set and the tasks dropped
\* for their depth.
RECURSIVE select_batch(_, _, _, _)
select_batch(q, batch, proc, dropped) ==
    IF q = <<>> \/ Len(batch) >= max_workers
    THEN [queue |-> q, batch |-> batch, processing |-> proc, dropped |-> dropped]
    ELSE LET url == Head(q)[1]
             depth == Head(q)[2]
         IN  IF url \in visited_urls \/ url \in proc
             THEN select_batch(Tail(q), batch, proc, dropped)
             ELSE IF too_deep(depth)
             THEN select_batch(Tail(q), batch, proc, dropped \cup {Head(q)})
             ELSE select_batch(Tail(q), Append(batch, Head(q)),
                               proc \cup {url}, dropped)

\* lines 94-120: one pass of the outer loop up to the submission of the batch,
\* or the end of the loop
SelectBatch ==
    /\ crawl_pc = "loop"
    /\ LET r == select_batch(queue, <<>>, processing, {})
       IN  IF queue = <<>> \/ r.batch = <<>>
           THEN /\ crawl_pc' = "returned"
                /\ queue' = r.queue
                /\ discarded' = discarded \cup r.dropped
                /\ UNCHANGED <<processing, new_urls, thread, dispatched>>
           ELSE /\ crawl_pc' = "wait"
                /\ queue' = r.queue
                /\ processing' = r.processing
                /\ discarded' = discarded \cup r.dropped
                /\ new_urls' = <<>>
                /\ thread' = [w \in Workers |->
                                 IF w <= Len(r.batch)
                                 THEN [IdleThread EXCEPT !.pc = "start",
                                                         !.task = r.batch[w]]
                                 ELSE thread[w]]
                /\ dispatched' = dispatched \cup {r.batch[k] : k \in 1..Len(r.batch)}
    /\ UNCHANGED <<seed_url, config, calls, visited_urls, link_structure, url_to_filename_map,
                   domain_timestamps, domain_lock, file_lock, files, now,
                   fetch_count>>

\* lines 124-137: as_completed yields a finished future; its links are
\* collected with depth + 1
Collect(w) ==
    /\ crawl_pc = "wait"
    /\ thread[w].pc = "done"
    /\ processing' = processing \ {thread[w].task[1]}
    /\ new_urls' = new_urls \o [k \in 1..Len(thread[w].out) |->
                                   <<thread[w].out[k], thread[w].task[2] + 1>>]
    /\ thread' = [thread EXCEPT ![w] = IdleThread]
    /\ UNCHANGED <<seed_url, config, calls, visited_urls, link_structure, url_to_filename_map,
                   domain_timestamps, domain_lock, file_lock, files, now,
                   crawl_pc, queue, fetch_count, dispatched, discarded>>

\* lines 139-141: the batch has drained; its links join the queue
ExtendQueue ==
    /\ crawl_pc = "wait"
    /\ \A w \in Workers : thread[w].pc = "idle"
    /\ queue' = queue \o new_urls
    /\ new_urls' = <<>>
    /\ crawl_pc' = "loop"
    /\ UNCHANGED <<seed_url, config, calls, visited_urls, link_structure, url_to_filename_map,
                   domain_timestamps, domain_lock, file_lock, files, now,
                   processing, thread, fetch_count, dispatched, discarded>>

(***************************************************************************)
(* process_url(url, depth), run by pool thread w.                          *)
(***************************************************************************)
\* the call returns out (also from the except clause of lines 219-221)
Return(w, out) ==
    thread' = [thread EXCEPT ![w] = [IdleThread EXCEPT !.pc = "done",
                                                      !.task = thread[w].task,
                                                      !.out = out]]

Goto(w, pc) == thread' = [thread EXCEPT ![w].pc = pc]

\* mutation: the URL that failed is returned, to be queued again
raised_requeue(w) == Return(w, <<thread[w].url>>)

\* lines 219-221: an exception raised inside process_url is caught there and
\* the call returns the empty list
raised(w) == Return(w, <<>>)

\* mutation: the membership test is left out
already_visited_unchecked(url) == FALSE

\* line 158: the membership test made under visited_lock
already_visited(url) == url \in visited_urls

\* lines 148-160: normalize, validate, then test-and-set under visited_lock
Claim(w) ==
    /\ thread[w].pc = "start"
    /\ LET url == NormalizeUrl[thread[w].task[1]]
           parsed == UrlParse[url]
       IN  IF parsed.scheme = "" \/ parsed.netloc = "" \/ already_visited(url)
           THEN /\ Return(w, <<>>)
                /\ UNCHANGED visited_urls
           ELSE /\ visited_urls' = visited_urls \cup {url}
                /\ thread' = [thread EXCEPT ![w].pc = "entry", ![w].url = url]
    /\ UNCHANGED <<seed_url, config, calls, link_structure, url_to_filename_map, domain_timestamps,
                   domain_lock, file_lock, files, now, crawl_pc, queue,
                   processing, new_urls, fetch_count, dispatched, discarded>>

\* lines 162-164: the empty entry, under structure_lock
InitEntry(w) ==
    /\ thread[w].pc = "entry"
    /\ link_structure' = Put(link_structure, thread[w].url, <<>>)
    /\ Goto(w, "rate")
    /\ UNCHANGED <<seed_url, config, calls, visited_urls, url_to_filename_map, domain_timestamps,
                   domain_lock, file_lock, files, now, crawl_pc, queue,
                   processing, new_urls, fetch_count, dispatched, discarded>>

\* the values a later reading of the clock may give
Elapse(t) == t..(t + MaxTick)

\* mutation: the time already elapsed is slept, not the time that is missing
sleep_time_elapsed(elapsed) == elapsed

\* line 232: the time slept when elapsed < rate_limit
sleep_time(elapsed) == rate_limit - elapsed

\* where process_url goes on after apply_rate_limit (line 174)
after_rate == IF save_path # "" THEN "cache_read" ELSE "fetch"

\* apply_rate_limit, lines 225-235 without the sleep: domain_lock is taken,
\* the clock is read, and either the access is recorded at a second reading
\* of the clock and the lock released, or the thread goes to sleep holding
\* the lock
RateEnter(w) ==
    /\ thread[w].pc = "rate"
    /\ domain_lock = 0
    /\ \E current_time \in Elapse(now) :
          LET domain == UrlParse[thread[w].url].netloc
              known == domain \in DOMAIN domain_timestamps
              elapsed == current_time - domain_timestamps[domain]
          IN  IF known /\ elapsed < rate_limit
              THEN /\ now' = current_time
                   /\ domain_lock' = w
                   /\ thread' = [thread EXCEPT
                                    ![w].pc = "sleep",
                                    ![w].wake = current_time + sleep_time(elapsed)]
                   /\ UNCHANGED domain_timestamps
              ELSE /\ \E t \in Elapse(current_time) :
                         /\ now' = t
                         /\ domain_timestamps' = Put(domain_timestamps, domain, t)
                   /\ Goto(w, after_rate)
                   /\ UNCHANGED domain_lock
    /\ UNCHANGED <<seed_url, config, calls, visited_urls, link_structure, url_to_filename_map,
                   file_lock, files, crawl_pc, queue, processing, new_urls,
                   fetch_count, dispatched, discarded>>

\* lines 232-235: time.sleep returns no earlier than asked, the access is
\* recorded and domain_lock released
RateWake(w) ==
    /\ thread[w].pc = "sleep"
    /\ \E t \in Elapse(IF thread[w].wake > now THEN thread[w].wake ELSE now) :
          /\ now' = t
          /\ domain_timestamps' =
                 Put(domain_timestamps, UrlParse[thread[w].url].netloc, t)
    /\ domain_lock' = 0
    /\ thread' = [thread EXCEPT ![w].pc = after_rate, ![w].wake = 0]
    /\ UNCHANGED <<seed_url, config, calls, visited_urls, link_structure, url_to_filename_map,
                   file_lock, files, crawl_pc, queue, processing, new_urls,
                   fetch_count, dispatched, discarded>>

\* lines 174-187: get_filename_for_url (a new entry is stored under
\* file_lock), then, under file_lock, an existing file is read; a failed read
\* leaves cached_content None
CacheRead(w) ==
    /\ thread[w].pc = "cache_read"
    /\ file_lock = 0
    /\ url_to_filename_map' = memoize_filename(url_to_filename_map, thread[w].url)
    /\ LET filename == get_filename_for_url(url_to_filename_map, thread[w].url)
       IN  IF filename \in DOMAIN files
           THEN \E readable \in BOOLEAN :
                   thread' = [thread EXCEPT
                                 ![w].pc = "fetch",
                                 ![w].cached = readable,
                                 ![w].content = IF readable THEN files[filename]
                                                ELSE <<>>]
           ELSE Goto(w, "fetch")
    /\ UNCHANGED <<seed_url, config, calls, visited_urls, link_structure,
                   domain_timestamps, domain_lock, file_lock, files, now,
                   crawl_pc, queue, processing, new_urls, fetch_count,
                   dispatched, discarded>>

\* line 190: "if cached_content:", None and the empty string both being false
use_cached(cached, content) == cached /\ content # <<>>

\* the outcomes of requests.get + raise_for_status for url: TRUE a response
FetchOutcomes(url) == IF url \in DOMAIN site THEN BOOLEAN ELSE {FALSE}

\* lines 190-197: the links come from the cached content, or from the fetch
\* capability; a failed fetch raises into the except clause
Fetch(w) ==
    /\ thread[w].pc = "fetch"
    /\ LET url == thread[w].url
       IN  IF use_cached(thread[w].cached, thread[w].content)
           THEN /\ thread' = [thread EXCEPT
                                 ![w].pc = "store",
                                 ![w].links = ExtractLinks[
                                                  url, thread[w].content],
                                 ![w].content = <<>>]
                /\ UNCHANGED fetch_count
           ELSE /\ fetch_count' =
                       Put(fetch_count, url,
                           IF url \in DOMAIN fetch_count THEN fetch_count[url] + 1
                           ELSE 1)
                /\ \E ok \in FetchOutcomes(url) :
                      IF ok
                      THEN thread' = [thread EXCEPT
                               ![w].pc = IF save_path # "" /\ site[url] # <<>>
                                         THEN "save" ELSE "store",
                               ![w].links = ExtractLinks[url, site[url]],
                               ![w].content = IF save_path # "" THEN site[url]
                                              ELSE <<>>]
                      ELSE raised(w)
    /\ UNCHANGED <<seed_url, config, calls, visited_urls, link_structure, url_to_filename_map,
                   domain_timestamps, domain_lock, file_lock, files, now,
                   crawl_pc, queue, processing, new_urls, dispatched, discarded>>

\* save_page, lines 321-325: file_lock is taken and the file opened for
\* writing, which truncates it; a failure to open raises
SaveOpen(w) ==
    /\ thread[w].pc = "save"
    /\ file_lock = 0
    /\ LET filename == get_filename_for_url(url_to_filename_map, thread[w].url)
       IN  \E opened \in BOOLEAN :
              IF opened
              THEN /\ file_lock' = w
                   /\ files' = Put(files, filename, <<>>)
                   /\ Goto(w, "write")
              ELSE /\ raised(w)
                   /\ UNCHANGED <<file_lock, files>>
    /\ UNCHANGED <<seed_url, config, calls, visited_urls, link_structure, url_to_filename_map,
                   domain_timestamps, domain_lock, now, crawl_pc, queue,
                   processing, new_urls, fetch_count, dispatched, discarded>>

\* save_page, line 326: the content is written and file_lock released; a
\* failed write raises and leaves the truncated file
SaveWrite(w) ==
    /\ thread[w].pc = "write"
    /\ file_lock' = 0
    /\ LET filename == get_filename_for_url(url_to_filename_map, thread[w].url)
       IN  \E written \in BOOLEAN :
              IF written
              THEN /\ files' = Put(files, filename, thread[w].content)
                   /\ thread' = [thread EXCEPT ![w].pc = "store",
                                               ![w].content = <<>>]
              ELSE /\ raised(w)
                   /\ UNCHANGED files
    /\ UNCHANGED <<seed_url, config, calls, visited_urls, link_structure, url_to_filename_map,
                   domain_timestamps, domain_lock, now, crawl_pc, queue,
                   processing, new_urls, fetch_count, dispatched, discarded>>

\* lines 199-201: the links are stored under structure_lock
Store(w) ==
    /\ thread[w].pc = "store"
    /\ link_structure' = Put(link_structure, thread[w].url, thread[w].links)
    /\ IF thread[w].links = <<>>
       THEN Return(w, <<>>)
       ELSE thread' = [thread EXCEPT ![w].pc = "filter", ![w].i = 1,
                                     ![w].out = <<>>, ![w].cached = FALSE]
    /\ UNCHANGED <<seed_url, config, calls, visited_urls, url_to_filename_map, domain_timestamps,
                   domain_lock, file_lock, files, now, crawl_pc, queue,
                   processing, new_urls, fetch_count, dispatched, discarded>>

\* mutation: the domain filter lets every link through
domain_allowed_any(link) == TRUE

\* line 214: the domain filter
domain_allowed(link) ==
    ~restrict_to_domain \/ UrlParse[link].netloc = base_domain

\* lines 205-217: one turn of the loop over links; after the last link the
\* call returns new_urls
Filter(w) ==
    /\ thread[w].pc = "filter"
    /\ LET link == NormalizeUrl[thread[w].links[thread[w].i]]
           out == IF link \notin visited_urls /\ domain_allowed(link)
                  THEN Append(thread[w].out, link) ELSE thread[w].out
       IN  IF thread[w].i = Len(thread[w].links)
           THEN Return(w, out)
           ELSE thread' = [thread EXCEPT ![w].i = @ + 1, ![w].out = out]
    /\ UNCHANGED <<seed_url, config, calls, visited_urls, link_structure, url_to_filename_map,
                   domain_timestamps, domain_lock, file_lock, files, now,
                   crawl_pc, queue, processing, new_urls, fetch_count,
                   dispatched, discarded>>

process_url(w) ==
    \/ Claim(w)
    \/ InitEntry(w)
    \/ RateEnter(w)
    \/ RateWake(w)
    \/ CacheRead(w)
    \/ Fetch(w)
    \/ SaveOpen(w)
    \/ SaveWrite(w)
    \/ Store(w)
    \/ Filter(w)

Next ==
    \/ CrawlStart
    \/ SelectBatch
    \/ \E w \in Workers : Collect(w)
    \/ ExtendQueue
    \/ \E w \in Workers : process_url(w)

Spec == Init /\ [][Next]_vars

\* the pool and the scheduler never stop while a step is possible
SpecLive == Spec /\ WF_vars(Next)

(***************************************************************************)
(* The end-to-end scenario: a crawler constructed with the scenario's seed *)
(* and restrict_to_domain set, run against the scenario's site, with or    *)
(* without a (so far empty) cache directory.                               *)
(***************************************************************************)
InitScenario ==
    /\ seed_url = ScenarioSeed
    /\ base_domain = UrlParse[seed_url].netloc
    /\ restrict_to_domain = TRUE
    /\ save_path \in {"", "cache"}
    /\ max_depth = MaxDepth
    /\ site = ScenarioSite
    /\ visited_urls = {}
    /\ link_structure = <<>>
    /\ url_to_filename_map = <<>>
    /\ domain_timestamps = <<>>
    /\ domain_lock = 0
    /\ file_lock = 0
    /\ files = <<>>
    /\ now = 0
    /\ crawl_pc = "init"
    /\ queue = <<>>
    /\ processing = {}
    /\ new_urls = <<>>
    /\ thread = [w \in Workers |-> IdleThread]
    /\ fetch_count = <<>>
    /\ dispatched = {}
    /\ discarded = {}
    /\ call_pc = "none"
    /\ args = <<>>
    /\ results = <<>>

SpecScenario == InitScenario /\ [][Next]_vars

(***************************************************************************)
(* A deeper crawl: a crawler constructed with max_depth = DeepDepth, run   *)
(* against the deep site, with or without a (so far empty) cache directory.*)
(***************************************************************************)
InitDeep ==
    /\ seed_url = DeepSeed
    /\ base_domain = UrlParse[seed_url].netloc
    /\ restrict_to_domain = TRUE
    /\ save_path \in {"", "cache"}
    /\ max_depth = DeepDepth
    /\ site = DeepSite
    /\ visited_urls = {}
    /\ link_structure = <<>>
    /\ url_to_filename_map = <<>>
    /\ domain_timestamps = <<>>
    /\ domain_lock = 0
    /\ file_lock = 0
    /\ files = <<>>
    /\ now = 0
    /\ crawl_pc = "init"
    /\ queue = <<>>
    /\ processing = {}
    /\ new_urls = <<>>
    /\ thread = [w \in Workers |-> IdleThread]
    /\ fetch_count = <<>>
    /\ dispatched = {}
    /\ discarded = {}
    /\ call_pc = "none"
    /\ args = <<>>
    /\ results = <<>>

SpecDeep == InitDeep /\ [][Next]_vars

(***************************************************************************)
(* Direct calls of normalize_url and get_filename_for_url on a crawler     *)
(* that is not crawling: two URLs are normalized, and the results are then *)
(* either normalized again or given cache filenames.                       *)
(***************************************************************************)
InitUrl ==
    /\ seed_url = "https://x.test"
    /\ base_domain = UrlParse[seed_url].netloc
    /\ restrict_to_domain = TRUE
    /\ save_path = "cache"
    /\ max_depth = MaxDepth
    /\ site = Site
    /\ visited_urls = {}
    /\ link_structure = <<>>
    /\ url_to_filename_map = <<>>
    /\ domain_timestamps = <<>>
    /\ domain_lock = 0
    /\ file_lock = 0
    /\ files = <<>>
    /\ now = 0
    /\ crawl_pc = "init"
    /\ queue = <<>>
    /\ processing = {}
    /\ new_urls = <<>>
    /\ thread = [w \in Workers |-> IdleThread]
    /\ fetch_count = <<>>
    /\ dispatched = {}
    /\ discarded = {}
    /\ call_pc = "args"
    /\ args \in UrlInputs \X UrlInputs
    /\ results = <<>>

crawler_vars == <<seed_url, config, visited_urls, link_structure, domain_timestamps,
                  domain_lock, file_lock, files, now, crawl_pc, queue, processing,
                  new_urls, thread, fetch_count, dispatched, discarded>>

\* normalize_url(args[1]), normalize_url(args[2])
NormalizeArgs ==
    /\ call_pc = "args"
    /\ results' = <<NormalizeUrl[args[1]], NormalizeUrl[args[2]]>>
    /\ call_pc' = "normalized"
    /\ UNCHANGED <<crawler_vars, url_to_filename_map, args>>

\* the normalized URLs are normalized again
Renormalize ==
    /\ call_pc = "normalized"
    /\ args' = results
    /\ results' = <<NormalizeUrl[results[1]], NormalizeUrl[results[2]]>>
    /\ call_pc' = "renormalized"
    /\ UNCHANGED <<crawler_vars, url_to_filename_map>>

\* get_filename_for_url for the first normalized URL, then for the second
NameFiles ==
    /\ call_pc = "normalized"
    /\ args' = results
    /\ results' =
           <<get_filename_for_url(url_to_filename_map, results[1]),
             get_filename_for_url(memoize_filename(url_to_filename_map, results[1]),
                                  results[2])>>
    /\ url_to_filename_map' =
           memoize_filename(memoize_filename(url_to_filename_map, results[1]),
                            results[2])
    /\ call_pc' = "named"
    /\ UNCHANGED crawler_vars

NextUrl ==
    \/ NormalizeArgs
    \/ Renormalize
    \/ NameFiles

SpecUrl == InitUrl /\ [][NextUrl]_vars

(***************************************************************************)
(* LinkAnalyzer (src/LinkAnalyzer.py), applied to a link graph: a function *)
(* from keys to outbound lists.  A returned list of keys is represented by *)
(* the set of its elements: it holds each key at most once, in the order   *)
(* of the dictionary.                                                      *)
(***************************************************************************)
\* the sum of f[k] over the keys in S
RECURSIVE SumOver(_, _)
SumOver(f, S) ==
    IF S = {} THEN 0
    ELSE SumOver(f, S \ {CHOOSE k \in S : TRUE}) + f[CHOOSE k \in S : TRUE]

\* the number of occurrences of url in links
occurrences(links, url) == Cardinality({i \in DOMAIN links : links[i] = url})

\* find_orphaned_pages, lines 36-42: for each key, the occurrences of the
\* key in the outbound lists of all keys
incoming_links(g) ==
    [url \in DOMAIN g |->
        SumOver([source \in DOMAIN g |-> occurrences(g[source], url)], DOMAIN g)]

\* find_orphaned_pages, line 45
find_orphaned_pages(g) == {url \in DOMAIN g : incoming_links(g)[url] = 0}

\* the floor of the hub threshold (line 54)
HubFloor == 10

\* find_hubs, lines 52-53: the sum of the outbound-list lengths; the average
\* is this sum over the number of keys
outgoing_total(g) == SumOver([url \in DOMAIN g |-> Len(g[url])], DOMAIN g)

\* mutation: the floor of the threshold is left out
above_average_only(count, total, n) == count * n > total * 2

\* lines 54 and 56: count > max(total / n * 2, 10), for n > 0
above_threshold(count, total, n) == count * n > total * 2 /\ count > HubFloor

\* find_hubs
find_hubs(g) ==
    IF DOMAIN g = {} THEN {}
    ELSE {url \in DOMAIN g :
             above_threshold(Len(g[url]), outgoing_total(g), Cardinality(DOMAIN g))}

(***************************************************************************)
(* analyze_page_rank.  A score is represented by the way the code puts it  *)
(* together, not by its floating-point value: round is the iteration that  *)
(* produced it (0 for the initial 1/N), base tells whether it started from *)
(* the base rank (1 - damping_factor) / total_pages, and from maps each    *)
(* source whose outbound weight was added to the round of the source's     *)
(* score that the weight was taken from.                                   *)
(***************************************************************************)
\* line 12
Iterations == 10

\* line 18: set(links)
unique_links(links) == {links[i] : i \in DOMAIN links}

\* line 8
initial_scores(g) == [url \in DOMAIN g |-> [round |-> 0, base |-> FALSE, from |-> <<>>]]

\* lines 17-20: the sources that distribute weight to target_url
sources_of(g, target_url) ==
    {source_url \in DOMAIN g : target_url \in unique_links(g[source_url])}

\* mutation: a target that is no key starts from the base rank as well
has_base_always(g, target_url) == TRUE

\* lines 15 and 25-28: a key starts from the base rank, any other target
\* from the first weight it receives
has_base(g, target_url) == target_url \in DOMAIN g

\* lines 15-30: one iteration, from the scores of the iteration before
new_scores(g, scores, round) ==
    [target_url \in DOMAIN g \cup UNION {unique_links(g[s]) : s \in DOMAIN g} |->
        [round |-> round,
         base |-> has_base(g, target_url),
         from |-> [source_url \in sources_of(g, target_url) |->
                      scores[source_url].round]]]

\* lines 14-30: the scores after the iterations from round on
RECURSIVE iterate(_, _, _)
iterate(g, scores, round) ==
    IF round > Iterations THEN scores
    ELSE iterate(g, new_scores(g, scores, round), round + 1)

\* analyze_page_rank
analyze_page_rank(g) == iterate(g, initial_scores(g), 1)

(***************************************************************************)
(* The analyses applied to completed link graphs: LinkAnalyzer is          *)
(* constructed with a graph and one of its methods is called.              *)
(***************************************************************************)
\* the crawled pages of the graphs, and a link target that was never crawled
GraphPages == {"https://x.test/", "https://x.test/a", "https://x.test/b"}

Uncrawled == "https://y.test/"

\* an outbound list of n links, to the first and the second page in turn
long_list(n) ==
    [i \in 1..n |-> IF i % 2 = 1 THEN "https://x.test/" ELSE "https://x.test/a"]

\* the outbound lists of the graphs: none, single, repeated and self links,
\* links to an uncrawled page, and lists at and above the floor of the hubs
OutboundLists ==
    { <<>>, <<"https://x.test/">>, <<"https://x.test/a">>,
      <<"https://x.test/b", "https://x.test/b">>,
      <<"https://x.test/a", "https://x.test/b">>,
      <<Uncrawled>>, <<"https://x.test/b", Uncrawled>>,
      long_list(HubFloor), long_list(HubFloor + 1) }

\* the link graphs: every set of pages as keys, every choice of lists
LinkGraphs == UNION {[keys -> OutboundLists] : keys \in SUBSET GraphPages}

\* LinkAnalyzer.__init__
InitAnalyzer ==
    /\ seed_url = "https://x.test"
    /\ base_domain = UrlParse[seed_url].netloc
    /\ restrict_to_domain = TRUE
    /\ save_path = ""
    /\ max_depth = MaxDepth
    /\ site = Site
    /\ visited_urls = {}
    /\ link_structure \in LinkGraphs
    /\ url_to_filename_map = <<>>
    /\ domain_timestamps = <<>>
    /\ domain_lock = 0
    /\ file_lock = 0
    /\ files = <<>>
    /\ now = 0
    /\ crawl_pc = "returned"
    /\ queue = <<>>
    /\ processing = {}
    /\ new_urls = <<>>
    /\ thread = [w \in Workers |-> IdleThread]
    /\ fetch_count = <<>>
    /\ dispatched = {}
    /\ discarded = {}
    /\ call_pc = "graph"
    /\ args = <<>>
    /\ results = <<>>

\* find_orphaned_pages()
FindOrphanedPages ==
    /\ call_pc = "graph"
    /\ results' = find_orphaned_pages(link_structure)
    /\ call_pc' = "orphans"
    /\ UNCHANGED <<crawler_vars, url_to_filename_map, args>>

\* find_hubs()
FindHubs ==
    /\ call_pc = "graph"
    /\ results' = find_hubs(link_structure)
    /\ call_pc' = "hubs"
    /\ UNCHANGED <<crawler_vars, url_to_filename_map, args>>

\* analyze_page_rank()
AnalyzePageRank ==
    /\ call_pc = "graph"
    /\ results' = analyze_page_rank(link_structure)
    /\ call_pc' = "scores"
    /\ UNCHANGED <<crawler_vars, url_to_filename_map, args>>

NextAnalyzer ==
    \/ FindOrphanedPages
    \/ FindHubs
    \/ AnalyzePageRank

SpecAnalyzer == InitAnalyzer /\ [][NextAnalyzer]_vars

(***************************************************************************)
(* The properties.                                                         *)
(***************************************************************************)
\* the authority of the URL thread w is processing
domain_of(w) == UrlParse[thread[w].url].netloc

\* the normalized URL of the task thread w was given
task_url(w) == NormalizeUrl[thread[w].task[1]]

\* C1: at-most-one-fetch.  In every state of a crawl, the fetch capability has
\* been invoked at most once for each normalized URL, failed fetches included.
C1_AtMostOneFetch ==
    \A u \in DOMAIN fetch_count : fetch_count[u] <= 1

\* C1 witness: without a cache, the fetch of a page with links failed (its
\* entry is empty), a second task for the same normalized URL was dispatched,
\* and its worker is about to make its visited test
C1_Witness ==
    \E w \in Workers :
        /\ thread[w].pc = "start"
        /\ save_path = ""
        /\ task_url(w) \in DOMAIN fetch_count
        /\ ExtractLinks[task_url(w), Site[task_url(w)]] # <<>>
        /\ link_structure[task_url(w)] = <<>>

\* C2: depth bound.  No task with depth > max_depth is ever submitted to the
\* pool or run by a worker; the tasks dropped for their depth are exactly of
\* depth > max_depth and none of them was dispatched.
C2_DepthBound ==
    /\ \A t \in dispatched : t[2] <= max_depth
    /\ \A w \in Workers : thread[w].pc # "idle" => thread[w].task[2] <= max_depth
    /\ \A t \in discarded : t[2] > max_depth /\ t \notin dispatched

\* C2 witness: a task deeper than max_depth was popped and dropped, and the
\* crawl has returned
C2_Witness ==
    /\ crawl_pc = "returned"
    /\ \E t \in discarded : t[2] = max_depth + 1

\* C3: domain spacing.  Whenever a call of apply_rate_limit for a domain that
\* has a recorded access completes, the instant it records is at least
\* rate_limit after the instant recorded before, and the caller goes on to its
\* cache read or fetch no earlier than that.
C3_DomainSpacing ==
    [][\A w \in Workers :
          (/\ thread[w].pc \in {"rate", "sleep"}
           /\ thread'[w].pc \notin {"rate", "sleep"}
           /\ domain_of(w) \in DOMAIN domain_timestamps)
          => /\ domain_timestamps'[domain_of(w)]
                   >= domain_timestamps[domain_of(w)] + rate_limit
             /\ now' >= domain_timestamps[domain_of(w)] + rate_limit]_vars

\* C3 witness: two URLs of one domain have both passed the rate limiter and
\* been fetched
C3_Witness ==
    \E u, v \in DOMAIN fetch_count :
        u # v /\ UrlParse[u].netloc = UrlParse[v].netloc

\* C4: distinct domains are not serialized.  While a worker sleeps out the
\* delay of its domain, a worker at the entry of apply_rate_limit for another
\* domain, whose spacing is satisfied, can proceed.
C4_DomainsIndependent ==
    \A w1, w2 \in Workers :
        (/\ thread[w1].pc = "sleep"
         /\ thread[w2].pc = "rate"
         /\ domain_of(w2) # domain_of(w1)
         /\ domain_of(w2) \in DOMAIN domain_timestamps
                => now - domain_timestamps[domain_of(w2)] >= rate_limit)
        => ENABLED RateEnter(w2)

\* C5: normalization is idempotent: normalizing a normalized URL returns it
\* unchanged.
C5_NormalizeIdempotent ==
    call_pc = "renormalized" => results = args

\* C6: seed initialisation.  crawl() starts with VisitedSet and LinkGraph empty
\* and the queue holding exactly (normalize_url(seed URL given), 1).
C6_SeedIsNormalizedInput ==
    [][crawl_pc = "init" /\ crawl_pc' # "init"
          => /\ queue' = << <<NormalizeUrl[seed_url], 1>> >>
             /\ visited_urls' = {}
             /\ link_structure' = <<>>]_vars

\* C7: termination.  Under fair scheduling crawl() returns, and once it has
\* returned the queue is empty and no worker is in flight.
C7_Termination ==
    /\ <>(crawl_pc = "returned")
    /\ [](crawl_pc = "returned"
             => queue = <<>> /\ \A w \in Workers : thread[w].pc = "idle")

\* C7 witness: crawl() has returned a graph of several pages
C7_Witness ==
    crawl_pc = "returned" /\ Cardinality(DOMAIN link_structure) >= 3

\* the URLs some worker is processing
in_progress == {thread[w].url : w \in {v \in Workers : thread[v].pc \notin {"idle", "start", "done"}}}

\* C8: failure containment.  When the fetch of a URL fails, its process_url
\* call returns the empty sequence and nothing reaches the scheduler: the
\* queue, the scheduler's position and the other workers are as they were;
\* the URL's LinkGraph entry is the empty list, and an entry no worker is
\* processing any more is never changed, so it stays the empty list.
C8_FailureContained ==
    [][/\ \A w \in Workers :
             (/\ thread[w].pc = "fetch"
              /\ ~use_cached(thread[w].cached, thread[w].content)
              /\ thread'[w].pc = "done")
             => /\ thread'[w].out = <<>>
                /\ thread[w].url \in DOMAIN link_structure'
                /\ link_structure'[thread[w].url] = <<>>
                /\ crawl_pc' = "wait"
                /\ queue' = queue /\ new_urls' = new_urls
                /\ \A v \in Workers \ {w} : thread'[v] = thread[v]
       /\ \A u \in DOMAIN link_structure :
             u \notin in_progress
             => u \in DOMAIN link_structure' /\ link_structure'[u] = link_structure[u]
      ]_vars

\* C8 witness: without a cache, the fetch of https://x.test/a (a page with
\* links) failed, its entry is empty, and the crawl went on to return with
\* another page of the queue processed
C8_Witness ==
    /\ crawl_pc = "returned"
    /\ save_path = ""
    /\ "https://x.test/a" \in DOMAIN fetch_count
    /\ link_structure["https://x.test/a"] = <<>>
    /\ "https://x.test?q///" \in DOMAIN link_structure

\* C9: a cache hit avoids the network.  When the cache file of a URL was read
\* (whatever it holds), the fetch capability is not invoked for that URL.
C9_CacheHitSkipsFetch ==
    [][\A w \in Workers :
          thread[w].pc = "fetch" /\ thread[w].cached
          => fetch_count' = fetch_count]_vars

\* C10: one cache file per distinct URL: two distinct normalized URLs get
\* different filenames.
C10_DistinctFilenames ==
    call_pc = "named" /\ args[1] # args[2] => results[1] # results[2]

\* C11: domain restriction.  With restrict_to_domain set, every key of the
\* LinkGraph, every URL fetched and every URL queued, collected or dispatched
\* has the authority of the seed.
C11_DomainRestriction ==
    restrict_to_domain =>
        /\ \A u \in DOMAIN link_structure \cup DOMAIN fetch_count :
              UrlParse[u].netloc = base_domain
        /\ \A k \in DOMAIN queue : UrlParse[queue[k][1]].netloc = base_domain
        /\ \A k \in DOMAIN new_urls : UrlParse[new_urls[k][1]].netloc = base_domain
        /\ \A t \in dispatched : UrlParse[t[1]].netloc = base_domain

\* C11 witness: a restricted crawl has returned, and the outbound list of a
\* page it fetched holds a link of another authority
C11_Witness ==
    /\ restrict_to_domain
    /\ crawl_pc = "returned"
    /\ \E u \in DOMAIN link_structure :
          \E k \in DOMAIN link_structure[u] :
              UrlParse[link_structure[u][k]].netloc # base_domain

\* the normalized URLs of the scenario's pages, relative to its seed
ScenarioKeys == {normalize_url(urljoin(ScenarioSeed, p)) : p \in ScenarioPaths}

\* no fetch failed and no page's links were lost: every URL fetched is served
\* and its LinkGraph entry holds the links of the page served
no_fetch_failures ==
    \A u \in DOMAIN fetch_count :
        u \in DOMAIN site /\ link_structure[u] = ExtractLinks[u, site[u]]

\* C12: end-to-end scenario.  A crawl from http://x.test/ without fetch
\* failures returns with the LinkGraph keys exactly the normalized URLs of
\* /, /a and /b, and with /b's outbound list empty.
C12_ScenarioKeys ==
    crawl_pc = "returned" /\ no_fetch_failures
        => /\ DOMAIN link_structure = ScenarioKeys
           /\ link_structure[normalize_url(urljoin(ScenarioSeed, "/b"))] = <<>>

\* the keys of the graph that occur in the outbound list of no other key
unlinked_by_others ==
    {url \in DOMAIN link_structure :
        \A other \in DOMAIN link_structure \ {url} :
            occurrences(link_structure[other], url) = 0}

\* C13: orphaned pages.  find_orphaned_pages returns exactly the keys that
\* occur in the outbound list of no other key.
C13_OrphansUnlinkedByOthers ==
    call_pc = "orphans" => results = unlinked_by_others

\* C14: hub pages.  find_hubs returns exactly the keys whose outbound list is
\* longer than both twice the average length and 10: nothing for the empty
\* graph, and never a key with 10 links or fewer.
C14_Hubs ==
    call_pc = "hubs" =>
        /\ \A url \in DOMAIN link_structure :
              url \in results <=>
                  /\ Len(link_structure[url]) * Cardinality(DOMAIN link_structure)
                         > 2 * outgoing_total(link_structure)
                  /\ Len(link_structure[url]) > 10
        /\ results \subseteq DOMAIN link_structure
        /\ DOMAIN link_structure = {} => results = {}
        /\ \A url \in results : Len(link_structure[url]) > 10

\* C14 witness: find_hubs was called on a graph of three keys and returned
\* the key with 11 links, the other lists being short
C14_Witness ==
    /\ call_pc = "hubs"
    /\ Cardinality(DOMAIN link_structure) = 3
    /\ \E url \in results : Len(link_structure[url]) = HubFloor + 1

\* C15: depth-ascending dispatch.  Whenever a batch is submitted, no task
\* submitted in an earlier batch is deeper than a task of this batch: every
\* task of depth d is dispatched in the same batch as, or in an earlier batch
\* than, the first task of depth d + 1.
C15_DepthAscendingDispatch ==
    [][\A t \in dispatched' \ dispatched :
          \A earlier \in dispatched : earlier[2] <= t[2]]_vars

\* the threads running a process_url call
in_flight == {w \in Workers : thread[w].pc \notin {"idle", "done"}}

\* C16: batch barrier and bounded concurrency.  At most max_workers calls of
\* process_url are in flight or marked as being processed; a batch is
\* selected, and the links of a batch join the queue, only when every task
\* of the batch before has completed and been collected; a batch submits at
\* most max_workers tasks.
C16_BatchBarrier ==
    /\ [](/\ Cardinality(in_flight) <= max_workers
          /\ Cardinality(processing) <= max_workers
          /\ \A w \in in_flight : thread[w].task[1] \in processing
          /\ crawl_pc = "loop"
                => processing = {} /\ \A w \in Workers : thread[w].pc = "idle")
    /\ [][/\ queue' # queue => \A w \in Workers : thread[w].pc = "idle"
          /\ Cardinality(dispatched' \ dispatched) <= max_workers]_vars

\* C16 witness: a full batch is in flight while further tasks wait in the
\* queue
C16_Witness ==
    /\ crawl_pc = "wait"
    /\ Cardinality(in_flight) = max_workers
    /\ max_workers > 1
    /\ queue # <<>>

\* C17: claimed URLs always have a graph entry.  In every state, every member
\* of visited_urls is a key of link_structure.
C17_VisitedHaveEntry ==
    visited_urls \subseteq DOMAIN link_structure

\* the cache filename of the URL thread w is processing
filename_of(w) == get_filename_for_url(url_to_filename_map, thread[w].url)

\* C18: cache writes to different files are independent.  While a worker is
\* inside the write of its file, a worker about to save, or to look up and
\* read, a different file can proceed.
C18_FilesIndependent ==
    \A w1, w2 \in Workers :
        (/\ thread[w1].pc = "write"
         /\ thread[w2].pc \in {"save", "cache_read"}
         /\ filename_of(w1) # filename_of(w2))
        => (ENABLED SaveOpen(w2) \/ ENABLED CacheRead(w2))

\* C19: cache I/O errors are a miss or a skip.  A worker whose cache file
\* could not be read invokes the fetch capability; and a worker that has
\* fetched a page goes through save_page, whether the write succeeds or
\* fails, on to storing the links it extracted.
C19_CacheErrorsSkipped ==
    [][\A w \in Workers :
          /\ (thread[w].pc = "fetch" /\ ~thread[w].cached /\ thread'[w] # thread[w])
                => /\ thread[w].url \in DOMAIN fetch_count'
                   /\ fetch_count' # fetch_count
          /\ (thread[w].pc \in {"save", "write"} /\ thread'[w] # thread[w])
                => /\ thread'[w].pc \in {"write", "store"}
                   /\ thread'[w].links = thread[w].links]_vars

\* the targets occurring in the outbound list of some key of the graph
link_targets == UNION {unique_links(link_structure[s]) : s \in DOMAIN link_structure}

\* C20: PageRank score keys.  For a non-empty graph the scores returned hold
\* every key, and a URL that is no key exactly if it occurs in an outbound
\* list; such an entry has no base rank and holds only the weights its
\* sources distributed in the last iteration, taken from their scores of
\* the iteration before; a key with an empty outbound list is among the
\* sources of no score.
C20_PageRankKeys ==
    call_pc = "scores" /\ DOMAIN link_structure # {} =>
        /\ DOMAIN link_structure \subseteq DOMAIN results
        /\ DOMAIN results \ DOMAIN link_structure = link_targets \ DOMAIN link_structure
        /\ \A url \in DOMAIN results \ DOMAIN link_structure :
              /\ ~results[url].base
              /\ results[url].round = Iterations
              /\ DOMAIN results[url].from =
                     {s \in DOMAIN link_structure :
                         occurrences(link_structure[s], url) > 0}
              /\ \A s \in DOMAIN results[url].from :
                     results[url].from[s] = Iterations - 1
        /\ \A url \in DOMAIN link_structure : results[url].base
        /\ \A s \in DOMAIN link_structure :
              link_structure[s] = <<>>
                  => \A url \in DOMAIN results : s \notin DOMAIN results[url].from

\* C20 witness: the scores of a graph of several keys, one of them without
\* outbound links, another linking to a page that is no key
C20_Witness ==
    /\ call_pc = "scores"
    /\ Cardinality(DOMAIN link_structure) >= 2
    /\ \E s \in DOMAIN link_structure : link_structure[s] = <<>>
    /\ Uncrawled \in DOMAIN results

\* the key under which a link returned by process_url is processed: the link
\* is normalized in the loop over links and again at the start of process_url
key_of(link) == NormalizeUrl[NormalizeUrl[link]]

\* the eligible links of the page served at key
eligible_links(key) ==
    IF key \in DOMAIN site
    THEN {ExtractLinks[key, site[key]][i] : i \in DOMAIN ExtractLinks[key, site[key]]}
             \cap {link \in Urls : domain_allowed(link)}
    ELSE {}

\* the keys of the pages whose shortest link distance from the seed is
\* at most depth - 1
RECURSIVE within_depth(_)
within_depth(depth) ==
    IF depth <= 1 THEN {NormalizeUrl[seed_url]}
    ELSE within_depth(depth - 1)
             \cup UNION {{key_of(link) : link \in eligible_links(key)} :
                            key \in within_depth(depth - 1)}

\* C21: the crawl result is independent of the interleaving.  A crawl without
\* fetch failures returns with the LinkGraph keys exactly the eligible pages
\* at a shortest link distance of at most max_depth - 1 from the seed, and
\* every task it dispatched had the depth 1 + the shortest distance of its
\* page.
C21_ResultIndependentOfInterleaving ==
    crawl_pc = "returned" /\ no_fetch_failures
        => /\ DOMAIN link_structure = within_depth(max_depth)
           /\ \A t \in dispatched :
                 /\ NormalizeUrl[t[1]] \in within_depth(t[2])
                 /\ t[2] > 1 => NormalizeUrl[t[1]] \notin within_depth(t[2] - 1)

\* the targets recorded in the outbound list of the page under key
recorded_targets(key) == {link_structure[key][i] : i \in DOMAIN link_structure[key]}

\* C22: graph keys match recorded link targets.  When crawl() has returned,
\* every page that was fetched because of a link (a task of depth > 1 whose
\* page has a LinkGraph entry) is a LinkGraph key and a visited URL under the
\* very string that some parent's outbound list records as the target.
C22_KeysMatchRecordedTargets ==
    crawl_pc = "returned"
        => \A t \in dispatched :
              t[2] > 1 /\ NormalizeUrl[t[1]] \in DOMAIN link_structure
                  => /\ NormalizeUrl[t[1]] \in visited_urls
                     /\ \E parent \in DOMAIN link_structure :
                           NormalizeUrl[t[1]] \in recorded_targets(parent)

=============================================================================
